---- MODULE Spec2Model ----
(***************************************************************************)
(* The GPS driver of the PROS kernel (src/src/devices/vdml_gps.c) over the *)
(* port-claim registry it relies on (vdml/vdml.h, vdml/registry.h).        *)
(*                                                                         *)
(* Every accessor claims the registry slot port - 1 for an E_DEVICE_GPS,   *)
(* calls the vendor API with the slot's handle and releases the slot.      *)
(* Tasks run accessors concurrently; a task's position inside an accessor  *)
(* is task[t].pc:                                                          *)
(*    "idle"/"done"  outside any accessor ("done": the last call returned) *)
(*    "entry"        calling an accessor with task[t].port, claim comes next*)
(*    "call1"        claim taken, the first vendor call comes next         *)
(*    "call2"        first vendor call made, the second comes next         *)
(*    "ret"          vendor calls made, return_port comes next             *)
(* Doubles are modelled as integers: the driver only copies them.          *)
(***************************************************************************)
EXTENDS Integers, Sequences, FiniteSets, TLC

VARIABLES registry, claimed, device, lastOffset, task

vars == <<registry, claimed, device, lastOffset, task>>

(* ------------------------------ bounds -------------------------------- *)

\* number of registry slots (one per smart port)
NUM_V5_PORTS == 3
\* the device's sensor readings cycle through this many snapshots
NumTicks == 2

Tasks == {"t1", "t2"}

Slots == 0 .. (NUM_V5_PORTS - 1)

\* public (one-based, uint8_t) port numbers the tasks call with: 0 wraps
\* around, 1 .. NUM_V5_PORTS are the slots, NUM_V5_PORTS + 1 is past the end
Ports == 0 .. (NUM_V5_PORTS + 1)

(* ----------------------- constants of the API ------------------------- *)

PROS_SUCCESS == 1
PROS_ERR == 2147483647
\* PROS_ERR_F is INFINITY: a value no device reading and no argument takes
PROS_ERR_F == 2000000000

GPS_MINIMUM_DATA_RATE == 5

E_DEVICE_NONE == "E_DEVICE_NONE"
E_DEVICE_MOTOR == "E_DEVICE_MOTOR"
E_DEVICE_GPS == "E_DEVICE_GPS"

UINT8 == 256

\* the public port number handed on as it is
PortIndex_noadjust(port) == port % UINT8

\* uint8_t port; `port - 1` handed to the uint8_t port parameter of the claim
PortIndex(port) == (port - 1) % UINT8

(* --------------------------- return values ---------------------------- *)

\* a scalar (int32_t or double) return value
Scalar(v) == [val |-> v]
\* no value yet / no arguments
NoValue == [unset |-> TRUE]
NoArgs == <<>>

GPS_POSITION_ERR_INIT == [x |-> PROS_ERR_F, y |-> PROS_ERR_F]
GPS_ORIENTATION_ERR_INIT == [pitch |-> PROS_ERR_F, roll |-> PROS_ERR_F, yaw |-> PROS_ERR_F]
\* the initialiser with .yaw left out: C zero-initialises it
GPS_STATUS_ERR_INIT_partial ==
  [x |-> PROS_ERR_F, y |-> PROS_ERR_F, roll |-> PROS_ERR_F, pitch |-> PROS_ERR_F, yaw |-> 0]

GPS_STATUS_ERR_INIT ==
  [x |-> PROS_ERR_F, y |-> PROS_ERR_F, roll |-> PROS_ERR_F, pitch |-> PROS_ERR_F,
   yaw |-> PROS_ERR_F]
GPS_RAW_ERR_INIT == [x |-> PROS_ERR_F, y |-> PROS_ERR_F, z |-> PROS_ERR_F]

(* ------------------------------ registry ------------------------------ *)

\* what is plugged into each smart port: a GPS in slot 0, then motors and
\* empty ports in turn
PluggedType(i) ==
  IF i = 0 THEN E_DEVICE_GPS ELSE IF i % 2 = 1 THEN E_DEVICE_MOTOR ELSE E_DEVICE_NONE

VALIDATE_PORT_NO(i) == i >= 0 /\ i < NUM_V5_PORTS

registry_get_device(i) == registry[i]

\* the outcome of a claim of slot i for a device of the given type
claim_port(i, type) ==
  IF ~VALIDATE_PORT_NO(i) THEN "OutOfRange"
  ELSE IF registry_get_device(i).device_type = E_DEVICE_NONE THEN "NotInitialized"
  ELSE IF registry_get_device(i).device_type # type THEN "WrongDeviceType"
  ELSE IF claimed[i] THEN "AlreadyClaimed"
  ELSE "Ok"

\* the registry accesses a claim with that outcome performs
ClaimAccesses(outcome) ==
  CASE outcome = "OutOfRange" -> <<"range">>
    [] outcome \in {"NotInitialized", "WrongDeviceType"} -> <<"range", "lookup">>
    [] OTHER -> <<"range", "lookup", "lock">>

(* ----------------------------- vendor API ----------------------------- *)

\* what a GPS measures at tick n: every tick gives every quantity a new value
GpsAttitude(n) ==
  LET k == 10 * n IN
  [position_x |-> k + 1, position_y |-> k + 2, pitch |-> k + 3, roll |-> k + 4, yaw |-> k + 5]

GpsRawGyro(n) == LET k == 10 * n IN [x |-> k + 101, y |-> k + 102, z |-> k + 103]

GpsRawAccel(n) == LET k == 10 * n IN [x |-> k + 201, y |-> k + 202, z |-> k + 203]

\* the sensor snapshot of the device behind handle h at its current tick
vexDeviceGpsAttitudeGet(h) == GpsAttitude(device[h].tick)

vexDeviceGpsRawGyroGet(h) == GpsRawGyro(device[h].tick)

vexDeviceGpsRawAccelGet(h) == GpsRawAccel(device[h].tick)

vexDeviceGpsErrorGet(h) == 10 * device[h].tick + 301
vexDeviceGpsDegreesGet(h) == 10 * device[h].tick + 302
vexDeviceGpsHeadingGet(h) == 10 * device[h].tick + 303

vexDeviceGpsOriginGet(h) == device[h].origin

\* the device after vexDeviceGpsOriginSet(h, x, y)
vexDeviceGpsOriginSet(h, x, y) == [device EXCEPT ![h].origin = [x |-> x, y |-> y]]

(* ------------------------------- tasks -------------------------------- *)

IdleTask ==
  [pc |-> "idle", op |-> "none", port |-> 0, args |-> NoArgs, rtv |-> NoValue,
   outcome |-> "none", rivals |-> {}, vcalls |-> <<>>, accesses |-> <<>>]

\* task t calls into the driver with the uint8_t port argument `port`
Invoke(t) ==
  /\ task[t].pc \in {"idle", "done"}
  /\ \E port \in Ports :
       task' = [task EXCEPT ![t] = [IdleTask EXCEPT !.pc = "entry", !.port = port]]
  /\ UNCHANGED <<registry, claimed, device, lastOffset>>

\* task t has entered some accessor and is about to claim
Entering(t) == task[t].pc = "entry"

\* task t is between a claim and the release that ends it
InSection(t) == task[t].pc \in {"call1", "call2", "ret"}

At(t, op, pc) == task[t].op = op /\ task[t].pc = pc

\* the slot and the handle of the accessor task t is in
Index(t) == PortIndex(task[t].port)
Info(t) == registry_get_device(Index(t)).device_info

Init ==
  /\ registry = [i \in Slots |-> [device_type |-> PluggedType(i), device_info |-> i]]
  /\ claimed = [i \in Slots |-> FALSE]
  /\ device = [i \in Slots |-> [origin |-> [x |-> 0, y |-> 0], tick |-> 0]]
  /\ lastOffset = [i \in Slots |-> NoValue]
  /\ task = [t \in Tasks |-> IdleTask]

(* --------------------------- argument sets ---------------------------- *)

OffsetArgs == {[xOffset |-> 30, yOffset |-> -15], [xOffset |-> -15, yOffset |-> 30]}
InitFullArgs ==
  {[xInitial |-> 7, yInitial |-> 8, headingInitial |-> 90, xOffset |-> 4, yOffset |-> -6]}
PositionArgs == {[xInitial |-> 11, yInitial |-> 12, headingInitial |-> 180]}
\* the rates asked for while two tasks run, and while one runs
SomeRates == {0, 12}
AllRates == (0 .. 26) \cup {2147483645, 2147483646, 2147483647}

(* ------------------------- steps of an accessor ----------------------- *)

\* claim_port(port, device_type, error_code): take slot i for task t or
\* return error_code from the accessor at once
\* task t once its claim of slot i has been decided
Entered(t, op, i, type, args, locals) ==
  [pc |-> "call1", op |-> op, port |-> task[t].port, args |-> args, rtv |-> locals,
   outcome |-> claim_port(i, type),
   rivals |-> {u \in Tasks \ {t} : InSection(u) /\ Index(u) = i},
   vcalls |-> <<>>, accesses |-> ClaimAccesses(claim_port(i, type))]

Claim(t, op, i, type, args, error_code, locals) ==
  LET o == claim_port(i, type)
      entered == Entered(t, op, i, type, args, locals)
  IN /\ Entering(t)
     /\ IF o = "Ok"
        THEN /\ claimed' = [claimed EXCEPT ![i] = TRUE]
             /\ task' = [task EXCEPT ![t] = entered]
        ELSE /\ claimed' = claimed
             /\ task' = [task EXCEPT ![t] = [entered EXCEPT !.pc = "done", !.rtv = error_code]]
     /\ UNCHANGED <<registry, device, lastOffset>>

claim_port_i(t, op, i, type, args) ==
  Claim(t, op, i, type, args, Scalar(PROS_ERR), NoValue)

claim_port_f(t, op, i, type, args) ==
  Claim(t, op, i, type, args, Scalar(PROS_ERR_F), NoValue)

\* a failed claim_port_try leaves through return_port: it gives the mutex
\* of a port this call never took
claim_port_try_releases(t, op, i, type, rtv) ==
  LET o == claim_port(i, type)
      entered == Entered(t, op, i, type, NoArgs, rtv)
  IN /\ Entering(t)
     /\ IF o = "Ok"
        THEN /\ claimed' = [claimed EXCEPT ![i] = TRUE]
             /\ task' = [task EXCEPT ![t] = entered]
        ELSE /\ claimed' = [j \in Slots |-> IF j = i THEN FALSE ELSE claimed[j]]
             /\ task' = [task EXCEPT ![t] =
                           [entered EXCEPT !.pc = "done",
                                           !.accesses = Append(@, "release")]]
     /\ UNCHANGED <<registry, device, lastOffset>>

\* the result of claim_port_try is not looked at: the accessor goes on to
\* the device of a slot it could not claim
claim_port_try_unchecked(t, op, i, type, rtv) ==
  LET o == claim_port(i, type)
      entered == Entered(t, op, i, type, NoArgs, rtv)
  IN /\ Entering(t)
     /\ claimed' = IF o = "Ok" THEN [claimed EXCEPT ![i] = TRUE] ELSE claimed
     /\ task' = [task EXCEPT ![t] =
                   IF i \in Slots THEN entered ELSE [entered EXCEPT !.pc = "done"]]
     /\ UNCHANGED <<registry, device, lastOffset>>

\* claim_port_try taking the port mutex with a wait: on a port another call
\* holds it blocks until the holder has given the mutex back
claim_port_try_waits(t, op, i, type, rtv) ==
  /\ claim_port(i, type) # "AlreadyClaimed"
  /\ Claim(t, op, i, type, NoArgs, rtv, rtv)

\* rtv = <error struct>; if (!claim_port_try(port - 1, type)) return rtv;
claim_port_try(t, op, i, type, rtv) ==
  Claim(t, op, i, type, NoArgs, rtv, rtv)

\* port_mutex_give(i); return value;
return_port(t, i, value) ==
  /\ claimed' = [claimed EXCEPT ![i] = FALSE]
  /\ task' = [task EXCEPT ![t].pc = "done", ![t].rtv = value,
                          ![t].accesses = Append(@, "release")]
  /\ UNCHANGED <<registry, device, lastOffset>>

\* return value; with the port_mutex_give of return_port forgotten
return_only(t, value) ==
  /\ task' = [task EXCEPT ![t].pc = "done", ![t].rtv = value]
  /\ UNCHANGED <<registry, claimed, device, lastOffset>>

\* the offset the caller of a writer asked for
RequestedOffset(t) == [x |-> task[t].args.xOffset, y |-> task[t].args.yOffset]

\* one vendor call fn(info, args) of task t: it hands back data, the device
\* becomes newDevice, the accessor's rtv becomes rtv, and the accessor moves
\* on to pc next
VendorCall(t, fn, info, args, data, newDevice, rtv, next) ==
  /\ device' = newDevice
  /\ lastOffset' = IF fn = "vexDeviceGpsOriginSet"
                   THEN [lastOffset EXCEPT ![info] = RequestedOffset(t)]
                   ELSE lastOffset
  /\ task' = [task EXCEPT ![t].pc = next, ![t].rtv = rtv,
                          ![t].vcalls =
                             Append(@, [fn |-> fn, info |-> info, args |-> args,
                                        data |-> data,
                                        held |-> Index(t) \in Slots /\ claimed[Index(t)]])]
  /\ UNCHANGED <<registry, claimed>>

(* ------------------------------ accessors ----------------------------- *)

\* gps_initialize_full giving the port back after the first write and taking
\* it again for the second, as gps_set_offset followed by gps_set_position
gps_initialize_full_gives_between(t) ==
  \/ \E a \in InitFullArgs :
       claim_port_i(t, "gps_initialize_full", Index(t), E_DEVICE_GPS, a)
  \/ /\ At(t, "gps_initialize_full", "call1")
     /\ LET a == task[t].args IN
        /\ device' = vexDeviceGpsOriginSet(Info(t), a.xOffset, a.yOffset)
        /\ lastOffset' = [lastOffset EXCEPT ![Info(t)] = RequestedOffset(t)]
        /\ claimed' = [claimed EXCEPT ![Index(t)] = FALSE]
        /\ task' = [task EXCEPT ![t].pc = "call2",
                                ![t].vcalls =
                                   Append(@, [fn |-> "vexDeviceGpsOriginSet", info |-> Info(t),
                                              args |-> <<a.xOffset, a.yOffset>>,
                                              data |-> NoValue, held |-> TRUE])]
        /\ UNCHANGED registry
  \/ /\ At(t, "gps_initialize_full", "call2")
     /\ ~claimed[Index(t)]
     /\ LET a == task[t].args IN
        /\ claimed' = [claimed EXCEPT ![Index(t)] = TRUE]
        /\ task' = [task EXCEPT ![t].pc = "ret",
                                ![t].vcalls =
                                   Append(@, [fn |-> "vexDeviceGpsInitialPositionSet",
                                              info |-> Info(t),
                                              args |-> <<a.xInitial, a.yInitial, a.headingInitial>>,
                                              data |-> NoValue, held |-> TRUE])]
        /\ UNCHANGED <<registry, device, lastOffset>>
  \/ /\ At(t, "gps_initialize_full", "ret")
     /\ return_port(t, Index(t), Scalar(PROS_SUCCESS))

gps_initialize_full(t) ==
  \/ \E a \in InitFullArgs :
       claim_port_i(t, "gps_initialize_full", Index(t), E_DEVICE_GPS, a)
  \/ /\ At(t, "gps_initialize_full", "call1")
     /\ LET a == task[t].args IN
        VendorCall(t, "vexDeviceGpsOriginSet", Info(t), <<a.xOffset, a.yOffset>>, NoValue,
                   vexDeviceGpsOriginSet(Info(t), a.xOffset, a.yOffset), NoValue, "call2")
  \/ /\ At(t, "gps_initialize_full", "call2")
     /\ LET a == task[t].args IN
        VendorCall(t, "vexDeviceGpsInitialPositionSet", Info(t),
                   <<a.xInitial, a.yInitial, a.headingInitial>>, NoValue, device, NoValue, "ret")
  \/ /\ At(t, "gps_initialize_full", "ret")
     /\ return_port(t, Index(t), Scalar(PROS_SUCCESS))

gps_set_offset(t) ==
  \/ \E a \in OffsetArgs :
       claim_port_i(t, "gps_set_offset", Index(t), E_DEVICE_GPS, a)
  \/ /\ At(t, "gps_set_offset", "call1")
     /\ LET a == task[t].args IN
        VendorCall(t, "vexDeviceGpsOriginSet", Info(t), <<a.xOffset, a.yOffset>>, NoValue,
                   vexDeviceGpsOriginSet(Info(t), a.xOffset, a.yOffset), NoValue, "ret")
  \/ /\ At(t, "gps_set_offset", "ret")
     /\ return_port(t, Index(t), Scalar(PROS_SUCCESS))

\* rtv.x = y; rtv.y = x;
gps_get_offset_rtv_swapped(origin) == [x |-> origin.y, y |-> origin.x]

\* rtv.x = x; rtv.y = y; of gps_get_offset
gps_get_offset_rtv(origin) == [x |-> origin.x, y |-> origin.y]

gps_get_offset(t) ==
  \/ claim_port_try(t, "gps_get_offset", Index(t), E_DEVICE_GPS,
                      GPS_POSITION_ERR_INIT)
  \/ /\ At(t, "gps_get_offset", "call1")
     /\ LET origin == vexDeviceGpsOriginGet(Info(t)) IN
        VendorCall(t, "vexDeviceGpsOriginGet", Info(t), <<>>, origin, device,
                   gps_get_offset_rtv(origin), "ret")
  \/ /\ At(t, "gps_get_offset", "ret")
     /\ return_port(t, Index(t), task[t].rtv)

\* gps_set_position ending in a plain return
gps_set_position_keeps_port(t) ==
  \/ \E a \in PositionArgs :
       claim_port_i(t, "gps_set_position", Index(t), E_DEVICE_GPS, a)
  \/ /\ At(t, "gps_set_position", "call1")
     /\ LET a == task[t].args IN
        VendorCall(t, "vexDeviceGpsInitialPositionSet", Info(t),
                   <<a.xInitial, a.yInitial, a.headingInitial>>, NoValue, device, NoValue,
                   "ret")
  \/ /\ At(t, "gps_set_position", "ret")
     /\ return_only(t, Scalar(PROS_SUCCESS))

gps_set_position(t) ==
  \/ \E a \in PositionArgs :
       claim_port_i(t, "gps_set_position", Index(t), E_DEVICE_GPS, a)
  \/ /\ At(t, "gps_set_position", "call1")
     /\ LET a == task[t].args IN
        VendorCall(t, "vexDeviceGpsInitialPositionSet", Info(t),
                   <<a.xInitial, a.yInitial, a.headingInitial>>, NoValue, device, NoValue, "ret")
  \/ /\ At(t, "gps_set_position", "ret")
     /\ return_port(t, Index(t), Scalar(PROS_SUCCESS))

\* the rounding without the minimum
gps_set_data_rate_effective_nomin(rate) == rate - (rate % GPS_MINIMUM_DATA_RATE)

\* rate is not less than 5ms, and rounded down to nearest increment of 5
gps_set_data_rate_effective(rate) ==
  IF rate < GPS_MINIMUM_DATA_RATE
  THEN GPS_MINIMUM_DATA_RATE
  ELSE rate - (rate % GPS_MINIMUM_DATA_RATE)

gps_set_data_rate(t, rates) ==
  \/ \E rate \in rates :
       claim_port_i(t, "gps_set_data_rate", Index(t), E_DEVICE_GPS,
                    [rate |-> rate])
  \/ /\ At(t, "gps_set_data_rate", "call1")
     /\ VendorCall(t, "vexDeviceGpsDataRateSet", Info(t),
                   <<gps_set_data_rate_effective(task[t].args.rate)>>, NoValue, device,
                   NoValue, "ret")
  \/ /\ At(t, "gps_set_data_rate", "ret")
     /\ return_port(t, Index(t), Scalar(PROS_SUCCESS))

\* a double-returning getter that claims with claim_port_i
FloatGetter_claims_i(t, op, type, fn, data, value) ==
  \/ claim_port_i(t, op, Index(t), type, NoArgs)
  \/ /\ At(t, op, "call1")
     /\ VendorCall(t, fn, Info(t), <<>>, data, device, Scalar(value), "ret")
  \/ /\ At(t, op, "ret")
     /\ return_port(t, Index(t), task[t].rtv)

\* a double-returning getter that ends in return_port(port, rtv): it gives
\* back the slot after its own
FloatGetter_gives_neighbour(t, op, type, fn, data, value) ==
  \/ claim_port_f(t, op, Index(t), type, NoArgs)
  \/ /\ At(t, op, "call1")
     /\ VendorCall(t, fn, Info(t), <<>>, data, device, Scalar(value), "ret")
  \/ /\ At(t, op, "ret")
     /\ return_port(t, task[t].port % UINT8, task[t].rtv)

\* a double-returning getter that ends in a plain return
FloatGetter_keeps_port(t, op, type, fn, data, value) ==
  \/ claim_port_f(t, op, Index(t), type, NoArgs)
  \/ /\ At(t, op, "call1")
     /\ VendorCall(t, fn, Info(t), <<>>, data, device, Scalar(value), "ret")
  \/ /\ At(t, op, "ret")
     /\ return_only(t, task[t].rtv)

\* the shape of the double-returning getters: claim_port_f, one vendor
\* read, rtv = <a field of it>, return_port
FloatGetter(t, op, type, fn, data, value) ==
  \/ claim_port_f(t, op, Index(t), type, NoArgs)
  \/ /\ At(t, op, "call1")
     /\ VendorCall(t, fn, Info(t), <<>>, data, device, Scalar(value), "ret")
  \/ /\ At(t, op, "ret")
     /\ return_port(t, Index(t), task[t].rtv)

\* the shape of the struct-returning getters: rtv = err, claim_port_try
\* or return rtv, one vendor read, fields copied, return_port
StructGetter(t, op, type, err, fn, data, value) ==
  \/ claim_port_try(t, op, Index(t), type, err)
  \/ /\ At(t, op, "call1")
     /\ VendorCall(t, fn, Info(t), <<>>, data, device, value, "ret")
  \/ /\ At(t, op, "ret")
     /\ return_port(t, Index(t), task[t].rtv)

gps_get_error(t) ==
  LET data == vexDeviceGpsErrorGet(Info(t)) IN
  FloatGetter(t, "gps_get_error", E_DEVICE_GPS, "vexDeviceGpsErrorGet",
              data, data)

gps_get_position_and_orientation_rtv(data) ==
  [x |-> data.position_x, y |-> data.position_y, pitch |-> data.pitch, roll |-> data.roll,
   yaw |-> data.yaw]

gps_get_position_and_orientation(t) ==
  LET data == vexDeviceGpsAttitudeGet(Info(t)) IN
  StructGetter(t, "gps_get_position_and_orientation", E_DEVICE_GPS, GPS_STATUS_ERR_INIT,
               "vexDeviceGpsAttitudeGet", data,
               gps_get_position_and_orientation_rtv(data))

gps_get_position_rtv(data) == [x |-> data.position_x, y |-> data.position_y]

\* gps_get_position fetching the attitude once for each field
gps_get_position_reads_twice(t) ==
  \/ claim_port_try(t, "gps_get_position", Index(t), E_DEVICE_GPS, GPS_POSITION_ERR_INIT)
  \/ /\ At(t, "gps_get_position", "call1")
     /\ LET data == vexDeviceGpsAttitudeGet(Info(t)) IN
        VendorCall(t, "vexDeviceGpsAttitudeGet", Info(t), <<>>, data, device,
                   [task[t].rtv EXCEPT !.x = data.position_x], "call2")
  \/ /\ At(t, "gps_get_position", "call2")
     /\ LET data == vexDeviceGpsAttitudeGet(Info(t)) IN
        VendorCall(t, "vexDeviceGpsAttitudeGet", Info(t), <<>>, data, device,
                   [task[t].rtv EXCEPT !.y = data.position_y], "ret")
  \/ /\ At(t, "gps_get_position", "ret")
     /\ return_port(t, Index(t), task[t].rtv)

gps_get_position(t) ==
  LET data == vexDeviceGpsAttitudeGet(Info(t)) IN
  StructGetter(t, "gps_get_position", E_DEVICE_GPS, GPS_POSITION_ERR_INIT,
               "vexDeviceGpsAttitudeGet", data,
               gps_get_position_rtv(data))

gps_get_position_x(t) ==
  LET data == vexDeviceGpsAttitudeGet(Info(t)) IN
  FloatGetter(t, "gps_get_position_x", E_DEVICE_GPS, "vexDeviceGpsAttitudeGet",
              data, data.position_x)

gps_get_position_y(t) ==
  LET data == vexDeviceGpsAttitudeGet(Info(t)) IN
  FloatGetter(t, "gps_get_position_y", E_DEVICE_GPS, "vexDeviceGpsAttitudeGet",
              data, data.position_y)

\* rtv.pitch = data.roll; rtv.roll = data.pitch;
gps_get_orientation_rtv_swapped(data) ==
  [pitch |-> data.roll, roll |-> data.pitch, yaw |-> data.yaw]

gps_get_orientation_rtv(data) == [pitch |-> data.pitch, roll |-> data.roll, yaw |-> data.yaw]

gps_get_orientation(t) ==
  LET data == vexDeviceGpsAttitudeGet(Info(t)) IN
  StructGetter(t, "gps_get_orientation", E_DEVICE_GPS, GPS_ORIENTATION_ERR_INIT,
               "vexDeviceGpsAttitudeGet", data,
               gps_get_orientation_rtv(data))

gps_get_pitch(t) ==
  LET data == vexDeviceGpsAttitudeGet(Info(t)) IN
  FloatGetter(t, "gps_get_pitch", E_DEVICE_GPS, "vexDeviceGpsAttitudeGet",
              data, data.pitch)

gps_get_roll(t) ==
  LET data == vexDeviceGpsAttitudeGet(Info(t)) IN
  FloatGetter(t, "gps_get_roll", E_DEVICE_GPS, "vexDeviceGpsAttitudeGet",
              data, data.roll)

gps_get_yaw(t) ==
  LET data == vexDeviceGpsAttitudeGet(Info(t)) IN
  FloatGetter(t, "gps_get_yaw", E_DEVICE_GPS, "vexDeviceGpsAttitudeGet",
              data, data.yaw)

\* gps_get_heading claiming the port for another device type
gps_get_heading_motor(t) ==
  LET data == vexDeviceGpsDegreesGet(Info(t)) IN
  FloatGetter(t, "gps_get_heading", E_DEVICE_MOTOR, "vexDeviceGpsDegreesGet",
              data, data)

gps_get_heading(t) ==
  LET data == vexDeviceGpsDegreesGet(Info(t)) IN
  FloatGetter(t, "gps_get_heading", E_DEVICE_GPS, "vexDeviceGpsDegreesGet",
              data, data)

gps_get_heading_raw(t) ==
  LET data == vexDeviceGpsHeadingGet(Info(t)) IN
  FloatGetter(t, "gps_get_heading_raw", E_DEVICE_GPS, "vexDeviceGpsHeadingGet",
              data, data)

gps_raw_rtv(data) == [x |-> data.x, y |-> data.y, z |-> data.z]

gps_get_gyro_rate(t) ==
  LET data == vexDeviceGpsRawGyroGet(Info(t)) IN
  StructGetter(t, "gps_get_gyro_rate", E_DEVICE_GPS, GPS_RAW_ERR_INIT,
               "vexDeviceGpsRawGyroGet", data,
               gps_raw_rtv(data))

gps_get_gyro_rate_x(t) ==
  LET data == vexDeviceGpsRawGyroGet(Info(t)) IN
  FloatGetter(t, "gps_get_gyro_rate_x", E_DEVICE_GPS, "vexDeviceGpsRawGyroGet",
              data, data.x)

gps_get_gyro_rate_y(t) ==
  LET data == vexDeviceGpsRawGyroGet(Info(t)) IN
  FloatGetter(t, "gps_get_gyro_rate_y", E_DEVICE_GPS, "vexDeviceGpsRawGyroGet",
              data, data.y)

gps_get_gyro_rate_z(t) ==
  LET data == vexDeviceGpsRawGyroGet(Info(t)) IN
  FloatGetter(t, "gps_get_gyro_rate_z", E_DEVICE_GPS, "vexDeviceGpsRawGyroGet",
              data, data.z)

gps_get_accel(t) ==
  LET data == vexDeviceGpsRawAccelGet(Info(t)) IN
  StructGetter(t, "gps_get_accel", E_DEVICE_GPS, GPS_RAW_ERR_INIT,
               "vexDeviceGpsRawAccelGet", data,
               gps_raw_rtv(data))

gps_get_accel_x(t) ==
  LET data == vexDeviceGpsRawAccelGet(Info(t)) IN
  FloatGetter(t, "gps_get_accel_x", E_DEVICE_GPS, "vexDeviceGpsRawAccelGet",
              data, data.x)

gps_get_accel_y(t) ==
  LET data == vexDeviceGpsRawAccelGet(Info(t)) IN
  FloatGetter(t, "gps_get_accel_y", E_DEVICE_GPS, "vexDeviceGpsRawAccelGet",
              data, data.y)

gps_get_accel_z(t) ==
  LET data == vexDeviceGpsRawAccelGet(Info(t)) IN
  FloatGetter(t, "gps_get_accel_z", E_DEVICE_GPS, "vexDeviceGpsRawAccelGet",
              data, data.z)

(* ----------------------------- environment ---------------------------- *)

\* the GPS behind handle h takes a new reading
DeviceUpdate(h) ==
  /\ registry[h].device_type = E_DEVICE_GPS
  /\ device' = [device EXCEPT ![h].tick = (@ + 1) % NumTicks]
  /\ UNCHANGED <<registry, claimed, lastOffset, task>>

\* one step of task t in the driver
Driver(t, rates) ==
  \/ Invoke(t)
  \/ gps_initialize_full(t)
  \/ gps_set_offset(t)
  \/ gps_get_offset(t)
  \/ gps_set_position(t)
  \/ gps_set_data_rate(t, rates)
  \/ gps_get_error(t)
  \/ gps_get_position_and_orientation(t)
  \/ gps_get_position(t)
  \/ gps_get_position_x(t)
  \/ gps_get_position_y(t)
  \/ gps_get_orientation(t)
  \/ gps_get_pitch(t)
  \/ gps_get_roll(t)
  \/ gps_get_yaw(t)
  \/ gps_get_heading(t)
  \/ gps_get_heading_raw(t)
  \/ gps_get_gyro_rate(t)
  \/ gps_get_gyro_rate_x(t)
  \/ gps_get_gyro_rate_y(t)
  \/ gps_get_gyro_rate_z(t)
  \/ gps_get_accel(t)
  \/ gps_get_accel_x(t)
  \/ gps_get_accel_y(t)
  \/ gps_get_accel_z(t)

\* the tasks run the driver concurrently; the sensors stand still
Next == \E t \in Tasks : Driver(t, SomeRates)

Spec == Init /\ [][Next]_vars

\* the call task t is in executes its next statement
Run(t) == task[t].pc \notin {"idle", "done"} /\ Driver(t, SomeRates)

\* the scheduler does not starve a task that can run
SpecFair == Init /\ [][Next]_vars /\ \A t \in Tasks : WF_vars(Run(t))

\* a robot with a second GPS, on the port next to the first
PluggedTwoGps(i) == IF i = 1 THEN E_DEVICE_GPS ELSE PluggedType(i)

InitTwoGps ==
  /\ registry = [i \in Slots |-> [device_type |-> PluggedTwoGps(i), device_info |-> i]]
  /\ claimed = [i \in Slots |-> FALSE]
  /\ device = [i \in Slots |-> [origin |-> [x |-> 0, y |-> 0], tick |-> 0]]
  /\ lastOffset = [i \in Slots |-> NoValue]
  /\ task = [t \in Tasks |-> IdleTask]

\* the tasks use a writer, a struct getter of each kind and a double getter
NextTwoGps ==
  \E t \in Tasks :
    \/ Invoke(t)
    \/ gps_set_offset(t)
    \/ gps_get_offset(t)
    \/ gps_get_error(t)
    \/ gps_get_position(t)

SpecTwoGps == InitTwoGps /\ [][NextTwoGps]_vars

\* one task runs the driver while the sensors take new readings
NextSensor ==
  \/ Driver("t1", AllRates)
  \/ \E h \in Slots : DeviceUpdate(h)

SpecSensor == Init /\ [][NextSensor]_vars

(* ------------------------- what the claims use ------------------------ *)

\* the accessors by return type: int32_t, a struct, double
IntOps == {"gps_initialize_full", "gps_set_offset", "gps_set_position", "gps_set_data_rate"}

StructFields(op) ==
  CASE op \in {"gps_get_offset", "gps_get_position"} -> {"x", "y"}
    [] op = "gps_get_position_and_orientation" -> {"x", "y", "pitch", "roll", "yaw"}
    [] op = "gps_get_orientation" -> {"pitch", "roll", "yaw"}
    [] op \in {"gps_get_gyro_rate", "gps_get_accel"} -> {"x", "y", "z"}

StructOps ==
  {"gps_get_offset", "gps_get_position", "gps_get_position_and_orientation",
   "gps_get_orientation", "gps_get_gyro_rate", "gps_get_accel"}

AttitudeOps ==
  {"gps_get_position_and_orientation", "gps_get_position", "gps_get_position_x",
   "gps_get_position_y", "gps_get_orientation", "gps_get_pitch", "gps_get_roll",
   "gps_get_yaw"}

\* the designated sentinel of an accessor
Sentinel(op) ==
  IF op \in IntOps THEN Scalar(PROS_ERR)
  ELSE IF op \in StructOps THEN [f \in StructFields(op) |-> PROS_ERR_F]
  ELSE Scalar(PROS_ERR_F)

\* task t has called an accessor and its claim has been decided
Called(t) == task[t].pc \notin {"idle", "entry"}

\* the step in which the accessor task t is in returns to its caller
Returns(t) == task[t].pc # "done" /\ task'[t].pc = "done"

\* the number of lock attempts of the call task t is in
LockAttempts(t) ==
  Cardinality({k \in 1 .. Len(task[t].accesses) : task[t].accesses[k] = "lock"})

(* ------------------------------- claims ------------------------------- *)

\* C1: in every reachable state, on every port, at most one task is between
\* its claim and its release.
C1_MutualExclusion ==
  \A i \in Slots : Cardinality({t \in Tasks : InSection(t) /\ Index(t) = i}) <= 1

\* a task holds the port while another one has been turned away from it
C1_Witness ==
  \E t \in Tasks : \E u \in Tasks \ {t} :
    /\ InSection(t) /\ task[t].outcome = "Ok"
    /\ task[u].pc = "done" /\ task[u].outcome = "AlreadyClaimed"
    /\ Index(u) = Index(t)

\* C2: a claim of a valid GPS port made while another task is between claim
\* and release fails with AlreadyClaimed, surfaces as the accessor's sentinel
\* after a single lock attempt and no vendor call; a claim made while no
\* other task is there succeeds; with no task left in an accessor's
\* section no port is claimed.
C2_ClaimConflict ==
  /\ \A t \in Tasks :
       (Called(t) /\ Index(t) \in Slots
          /\ registry[Index(t)].device_type = E_DEVICE_GPS)
       => IF task[t].rivals = {}
          THEN task[t].outcome = "Ok"
          ELSE /\ task[t].outcome = "AlreadyClaimed"
               /\ task[t].pc = "done"
               /\ task[t].rtv = Sentinel(task[t].op)
               /\ LockAttempts(t) = 1
               /\ task[t].vcalls = <<>>
  /\ (\A t \in Tasks : ~InSection(t)) => \A i \in Slots : ~claimed[i]

\* both calls are over: one succeeded, the other was turned away by it, and
\* the port is free
C2_Witness ==
  \E t \in Tasks : \E u \in Tasks \ {t} :
    /\ task[t].pc = "done" /\ task[t].outcome = "Ok"
    /\ task[u].pc = "done" /\ task[u].outcome = "AlreadyClaimed"
    /\ task[u].rivals = {t}
    /\ task[u].port = task[t].port
    /\ ~claimed[Index(t)]

\* C3 as stated: whatever the outcome of the claim, the claimed-flag of the
\* port is false when the accessor returns.
C3_ReleasedOnEveryReturn ==
  [][\A t \in Tasks :
       (Returns(t) /\ PortIndex(task'[t].port) \in Slots)
       => ~claimed'[PortIndex(task'[t].port)]]_vars

\* C3 amended: when the accessor returns, the claimed-flag of its port is
\* false unless another task holds the port at that moment: it is false
\* after a successful call, and after a call that failed with AlreadyClaimed
\* it is still true, held by the task that owns the port.
C3_ReturnLeavesNoOwnClaim ==
  [][\A t \in Tasks :
       (Returns(t) /\ PortIndex(task'[t].port) \in Slots)
       => LET i == PortIndex(task'[t].port)
              held == \E u \in Tasks \ {t} : InSection(u) /\ Index(u) = i
          IN /\ claimed'[i] <=> held
             /\ task'[t].outcome = "AlreadyClaimed" => (claimed[i] /\ claimed'[i])
             /\ task'[t].outcome = "Ok" => ~claimed'[i]]_vars

\* a call has returned with AlreadyClaimed and the port is still claimed
C3_Witness ==
  \E t \in Tasks :
    /\ task[t].pc = "done" /\ task[t].outcome = "AlreadyClaimed"
    /\ claimed[Index(t)]
    /\ task[t].rtv = Sentinel(task[t].op)

\* C4: a vendor call is made, or about to be made, only by a task whose
\* claim succeeded, on a port whose flag is set, with that port's handle.
C4_VendorOnlyUnderClaim ==
  \A t \in Tasks :
    /\ task[t].pc \in {"call1", "call2"}
       => /\ task[t].outcome = "Ok"
          /\ Index(t) \in Slots
          /\ claimed[Index(t)]
    /\ \A k \in 1 .. Len(task[t].vcalls) :
         /\ task[t].outcome = "Ok"
         /\ task[t].vcalls[k].held
         /\ task[t].vcalls[k].info = registry[Index(t)].device_info

\* the second vendor call of gps_initialize_full is in progress
C4_Witness ==
  \E t \in Tasks :
    /\ task[t].pc = "call2"
    /\ Len(task[t].vcalls) = 1
    /\ task[t].vcalls[1].held
    /\ claimed[Index(t)]

\* C5: an accessor called on a port outside the valid range returns its
\* designated sentinel and does nothing with the registry but the range
\* check: no lookup, no lock attempt, no release, no vendor call.
C5_OutOfRangeSentinel ==
  \A t \in Tasks :
    (Called(t) /\ Index(t) \notin Slots)
    => /\ task[t].pc = "done"
       /\ task[t].outcome = "OutOfRange"
       /\ task[t].rtv = Sentinel(task[t].op)
       /\ task[t].accesses = <<"range">>
       /\ task[t].vcalls = <<>>

\* one call on public port 0 and one on the port past the last have returned
C5_Witness ==
  \E t \in Tasks : \E u \in Tasks \ {t} :
    /\ task[t].pc = "done" /\ task[t].port = 0
    /\ task[t].op = "gps_get_gyro_rate" /\ task[t].rtv = GPS_RAW_ERR_INIT
    /\ task[u].pc = "done" /\ task[u].port = NUM_V5_PORTS + 1
    /\ task[u].op = "gps_set_position" /\ task[u].rtv = Scalar(PROS_ERR)

\* C6: an accessor called on a registered port whose device is not a GPS
\* returns its sentinel and makes no vendor call.
C6_WrongTypeSentinel ==
  \A t \in Tasks :
    (Called(t) /\ Index(t) \in Slots
       /\ registry[Index(t)].device_type \notin {E_DEVICE_GPS, E_DEVICE_NONE})
    => /\ task[t].pc = "done"
       /\ task[t].outcome = "WrongDeviceType"
       /\ task[t].rtv = Sentinel(task[t].op)
       /\ task[t].vcalls = <<>>

\* gps_get_accel and gps_get_heading have returned from a motor's port
C6_Witness ==
  \E t \in Tasks : \E u \in Tasks \ {t} :
    /\ task[t].pc = "done" /\ task[t].op = "gps_get_accel"
    /\ task[t].outcome = "WrongDeviceType"
    /\ registry[Index(t)].device_type = E_DEVICE_MOTOR
    /\ task[t].rtv = GPS_RAW_ERR_INIT
    /\ task[u].pc = "done" /\ task[u].op = "gps_get_heading"
    /\ task[u].outcome = "WrongDeviceType"
    /\ registry[Index(u)].device_type = E_DEVICE_MOTOR
    /\ task[u].rtv = Scalar(PROS_ERR_F)

\* C7: gps_set_data_rate forwards rate < 5 ? 5 : rate - rate % 5: a multiple
\* of 5, at least 5, within 5 below the rate asked for; 0 -> 5, 5 -> 5,
\* 7 -> 5, 12 -> 10, 23 -> 20; and a successful call forwards exactly once.
C7_DataRateClamp ==
  \A t \in Tasks :
    (task[t].op = "gps_set_data_rate" /\ task[t].outcome = "Ok")
    => /\ task[t].pc \in {"ret", "done"}
          => /\ Len(task[t].vcalls) = 1
             /\ task[t].vcalls[1].fn = "vexDeviceGpsDataRateSet"
       /\ \A k \in 1 .. Len(task[t].vcalls) :
            LET rate == task[t].args.rate
                effective == task[t].vcalls[k].args[1]
            IN /\ effective = IF rate < 5 THEN 5 ELSE rate - (rate % 5)
               /\ effective % 5 = 0
               /\ effective >= 5
               /\ rate >= 5 => (rate - 5 < effective /\ effective <= rate)
               /\ rate = 0 => effective = 5
               /\ rate = 5 => effective = 5
               /\ rate = 7 => effective = 5
               /\ rate = 12 => effective = 10
               /\ rate = 23 => effective = 20

\* a rate of 23 has been forwarded as 20
C7_Witness ==
  \E t \in Tasks :
    /\ At(t, "gps_set_data_rate", "done")
    /\ task[t].args.rate = 23
    /\ Len(task[t].vcalls) = 1
    /\ task[t].vcalls[1].args = <<20>>

\* C8: gps_get_offset returns the offset the last writer of the port's
\* offset (gps_set_offset or gps_initialize_full) asked for.
C8_OffsetRoundTrip ==
  [][\A t \in Tasks :
       (At(t, "gps_get_offset", "ret") /\ task'[t].pc = "done"
          /\ lastOffset[Index(t)] # NoValue)
       => task'[t].rtv = lastOffset[Index(t)]]_vars

\* gps_get_offset has returned the (3.0, -1.5) of a gps_set_offset
C8_Witness ==
  \E t \in Tasks :
    /\ At(t, "gps_get_offset", "done")
    /\ task[t].outcome = "Ok"
    /\ lastOffset[Index(t)] = [x |-> 30, y |-> -15]
    /\ task[t].rtv = [x |-> 30, y |-> -15]

\* C9: every attitude accessor makes one attitude read and returns the
\* vendor fields of the same names; the read {1, 2, 3, 4, 5} gives the
\* position (1, 2) and the orientation roll 4, pitch 3, yaw 5.
C9_AttitudeFanOut ==
  \A t \in Tasks :
    (task[t].op \in AttitudeOps /\ task[t].outcome = "Ok"
       /\ task[t].pc \in {"ret", "done"})
    => /\ Len(task[t].vcalls) = 1
       /\ task[t].vcalls[1].fn = "vexDeviceGpsAttitudeGet"
       /\ LET d == task[t].vcalls[1].data
              r == task[t].rtv
              op == task[t].op
          IN /\ op = "gps_get_position" => r = [x |-> d.position_x, y |-> d.position_y]
             /\ op = "gps_get_orientation"
                => r = [roll |-> d.roll, pitch |-> d.pitch, yaw |-> d.yaw]
             /\ op = "gps_get_position_and_orientation"
                => r = [x |-> d.position_x, y |-> d.position_y, pitch |-> d.pitch,
                        roll |-> d.roll, yaw |-> d.yaw]
             /\ op = "gps_get_position_x" => r = Scalar(d.position_x)
             /\ op = "gps_get_position_y" => r = Scalar(d.position_y)
             /\ op = "gps_get_pitch" => r = Scalar(d.pitch)
             /\ op = "gps_get_roll" => r = Scalar(d.roll)
             /\ op = "gps_get_yaw" => r = Scalar(d.yaw)
             /\ d = [position_x |-> 1, position_y |-> 2, pitch |-> 3, roll |-> 4, yaw |-> 5]
                => /\ op = "gps_get_position" => r = [x |-> 1, y |-> 2]
                   /\ op = "gps_get_orientation"
                      => r = [roll |-> 4, pitch |-> 3, yaw |-> 5]

\* gps_get_orientation has returned roll 4, pitch 3, yaw 5 of the read
\* {1, 2, 3, 4, 5}
C9_Witness ==
  \E t \in Tasks :
    /\ At(t, "gps_get_orientation", "done")
    /\ task[t].outcome = "Ok"
    /\ task[t].vcalls[1].data =
         [position_x |-> 1, position_y |-> 2, pitch |-> 3, roll |-> 4, yaw |-> 5]
    /\ task[t].rtv = [roll |-> 4, pitch |-> 3, yaw |-> 5]

\* C10: a struct-returning accessor whose claim failed returns a struct
\* whose every field is PROS_ERR_F, and no returned struct has some fields
\* equal to PROS_ERR_F and others not.
C10_WholeSentinelStruct ==
  \A t \in Tasks :
    (task[t].pc = "done" /\ task[t].op \in StructOps)
    => LET r == task[t].rtv IN
       /\ DOMAIN r = StructFields(task[t].op)
       /\ task[t].outcome # "Ok" => \A f \in DOMAIN r : r[f] = PROS_ERR_F
       /\ \A f, g \in DOMAIN r : (r[f] = PROS_ERR_F) <=> (r[g] = PROS_ERR_F)

\* gps_get_position_and_orientation has been turned away from a claimed port
C10_Witness ==
  \E t \in Tasks :
    /\ At(t, "gps_get_position_and_orientation", "done")
    /\ task[t].outcome = "AlreadyClaimed"
    /\ \A f \in {"x", "y", "pitch", "roll", "yaw"} : task[t].rtv[f] = PROS_ERR_F

\* the number of releases the call task t is in has made
Releases(t) ==
  Cardinality({k \in 1 .. Len(task[t].accesses) : task[t].accesses[k] = "release"})

\* C11 as stated: every path out of an accessor, the failure paths that
\* never took the claim included, passes through release.
C11_ReleaseOnEveryExit ==
  \A t \in Tasks : task[t].pc = "done" => Releases(t) = 1

\* C11 amended: return_port is the exit of every path on which the claim
\* succeeded, and it releases a port the call still holds; a call whose
\* claim failed returns without passing through release.
C11_ReleaseEndsEveryClaim ==
  \A t \in Tasks :
    /\ InSection(t) => (Releases(t) = 0 /\ claimed[Index(t)])
    /\ task[t].pc = "done"
       => IF task[t].outcome = "Ok"
          THEN /\ Releases(t) = 1
               /\ task[t].accesses[Len(task[t].accesses)] = "release"
          ELSE Releases(t) = 0

\* one call has left through return_port, another one has been turned away
\* and has left without it
C11_Witness ==
  \E t \in Tasks : \E u \in Tasks \ {t} :
    /\ At(t, "gps_get_error", "done") /\ task[t].outcome = "Ok"
    /\ Releases(t) = 1
    /\ At(u, "gps_get_offset", "done") /\ task[u].outcome = "AlreadyClaimed"
    /\ Releases(u) = 0

\* every accessor can take its claim step now, whatever the other tasks hold
ClaimStepEnabled(t) ==
  /\ ENABLED gps_initialize_full(t)
  /\ ENABLED gps_set_offset(t)
  /\ ENABLED gps_get_offset(t)
  /\ ENABLED gps_set_position(t)
  /\ ENABLED gps_set_data_rate(t, SomeRates)
  /\ ENABLED gps_get_error(t)
  /\ ENABLED gps_get_position_and_orientation(t)
  /\ ENABLED gps_get_position(t)
  /\ ENABLED gps_get_position_x(t)
  /\ ENABLED gps_get_position_y(t)
  /\ ENABLED gps_get_orientation(t)
  /\ ENABLED gps_get_pitch(t)
  /\ ENABLED gps_get_roll(t)
  /\ ENABLED gps_get_yaw(t)
  /\ ENABLED gps_get_heading(t)
  /\ ENABLED gps_get_heading_raw(t)
  /\ ENABLED gps_get_gyro_rate(t)
  /\ ENABLED gps_get_gyro_rate_x(t)
  /\ ENABLED gps_get_gyro_rate_y(t)
  /\ ENABLED gps_get_gyro_rate_z(t)
  /\ ENABLED gps_get_accel(t)
  /\ ENABLED gps_get_accel_x(t)
  /\ ENABLED gps_get_accel_y(t)
  /\ ENABLED gps_get_accel_z(t)

\* no call ever waits: at its claim every accessor can step at once, and a
\* call past its claim can always take its next step
NeverWaits ==
  \A t \in Tasks :
    /\ Entering(t) => ClaimStepEnabled(t)
    /\ InSection(t) => ENABLED Run(t)

\* C12: a claim never waits for the port (it fails at once when another
\* operation holds it), so under weak fairness every invocation returns
\* whatever the other tasks do, and no call is ever stuck.
C12_NeverWaitsAlwaysReturns ==
  /\ []NeverWaits
  /\ \A t \in Tasks : Entering(t) ~> (task[t].pc = "done")

\* a call has been turned away from a port while its holder was still inside
C12_Witness ==
  \E t \in Tasks : \E u \in Tasks \ {t} :
    /\ task[t].pc = "done" /\ task[t].outcome = "AlreadyClaimed"
    /\ InSection(u) /\ Index(u) = Index(t)

\* the accessors that hand back several quantities at once
MultiOps ==
  {"gps_get_position", "gps_get_orientation", "gps_get_position_and_orientation",
   "gps_get_gyro_rate", "gps_get_accel"}

\* what accessor op hands back when all its fields are the reading of tick n
FromSnapshot(op, n) ==
  LET a == GpsAttitude(n) IN
  CASE op = "gps_get_position" -> [x |-> a.position_x, y |-> a.position_y]
    [] op = "gps_get_orientation" -> [pitch |-> a.pitch, roll |-> a.roll, yaw |-> a.yaw]
    [] op = "gps_get_position_and_orientation" ->
         [x |-> a.position_x, y |-> a.position_y, pitch |-> a.pitch, roll |-> a.roll,
          yaw |-> a.yaw]
    [] op = "gps_get_gyro_rate" -> GpsRawGyro(n)
    [] op = "gps_get_accel" -> GpsRawAccel(n)

\* the tick of the reading a multi-quantity call of t has fetched is n
ReadAtTick(t, n) ==
  /\ Len(task[t].vcalls) = 1
  /\ task[t].rtv = FromSnapshot(task[t].op, n)

\* C13: a multi-quantity accessor reads the device exactly once per call and
\* every field it returns comes from that one snapshot, also when the sensor
\* takes new readings while the call runs.
C13_OneReadOneSnapshot ==
  \A t \in Tasks :
    (task[t].op \in MultiOps /\ task[t].outcome = "Ok")
    => /\ task[t].pc = "call1" => task[t].vcalls = <<>>
       /\ task[t].pc \in {"ret", "done"} => \E n \in 0 .. (NumTicks - 1) : ReadAtTick(t, n)
       /\ task[t].pc \notin {"call1", "ret", "done"} => FALSE

\* a position has been returned whole from a reading the sensor has since
\* replaced
C13_Witness ==
  \E t \in Tasks : \E n \in 0 .. (NumTicks - 1) :
    /\ At(t, "gps_get_position", "done") /\ task[t].outcome = "Ok"
    /\ ReadAtTick(t, n)
    /\ device[Index(t)].tick # n

\* the step is the claim of task t failing
ClaimFails(t) ==
  /\ Entering(t)
  /\ task'[t].pc = "done"
  /\ task'[t].outcome \in {"OutOfRange", "NotInitialized", "WrongDeviceType", "AlreadyClaimed"}

\* C14: a claim that fails, for whichever of the four reasons, shows only as
\* the sentinel: no descriptor's type or handle and no claimed-flag changes,
\* the device is not touched, and the flag of a port somebody else holds
\* stays set.
C14_FailedClaimChangesNothing ==
  [][\A t \in Tasks :
       ClaimFails(t)
       => /\ registry' = registry
          /\ claimed' = claimed
          /\ device' = device
          /\ task'[t].vcalls = <<>>
          /\ task'[t].rtv = Sentinel(task'[t].op)
          /\ task'[t].outcome = "AlreadyClaimed" => claimed'[Index(t)]]_vars

\* a writer has been turned away from a port whose holder is still inside
\* and still owns it
C14_Witness ==
  \E t \in Tasks : \E u \in Tasks \ {t} :
    /\ At(t, "gps_set_offset", "done") /\ task[t].outcome = "AlreadyClaimed"
    /\ task[t].rtv = Scalar(PROS_ERR)
    /\ InSection(u) /\ Index(u) = Index(t) /\ claimed[Index(u)]

\* the two device writes of the gps_initialize_full call of task t
OriginWrite(t) ==
  [fn |-> "vexDeviceGpsOriginSet", info |-> task[t].port - 1,
   args |-> <<task[t].args.xOffset, task[t].args.yOffset>>, data |-> NoValue, held |-> TRUE]

InitialPositionWrite(t) ==
  [fn |-> "vexDeviceGpsInitialPositionSet", info |-> task[t].port - 1,
   args |-> <<task[t].args.xInitial, task[t].args.yInitial, task[t].args.headingInitial>>,
   data |-> NoValue, held |-> TRUE]

\* where the gps_initialize_full call of task t stands, and what it has
\* written by then
InitializeFullProgress(t) ==
  IF task[t].outcome # "Ok"
  THEN task[t].pc = "done" /\ task[t].vcalls = <<>>
  ELSE /\ task[t].pc = "call1" => task[t].vcalls = <<>>
       /\ task[t].pc = "call2"
          => /\ task[t].vcalls = <<OriginWrite(t)>>
             /\ device[Index(t)].origin = RequestedOffset(t)
       /\ task[t].pc \in {"ret", "done"}
          => task[t].vcalls = <<OriginWrite(t), InitialPositionWrite(t)>>
       /\ InSection(t)
          => /\ claimed[Index(t)]
             /\ \A u \in Tasks \ {t} : ~(InSection(u) /\ Index(u) = Index(t))

\* a claim of the port of a running gps_initialize_full is decided in this
\* step, and it does not succeed
RivalClaimFails(t) ==
  \A u \in Tasks \ {t} :
    (Entering(u) /\ task'[u].pc # "entry" /\ Index(u) = Index(t))
    => task'[u].outcome = "AlreadyClaimed" /\ task'[u].pc = "done" /\ device' = device

\* C15: gps_initialize_full makes its two writes, origin first and initial
\* position second, under one claim that is never given up in between; no
\* other accessor gets the port between the writes; and when its claim
\* fails neither write happens.
C15_InitializeFullOneClaim ==
  /\ [](\A t \in Tasks :
          (Called(t) /\ task[t].op = "gps_initialize_full") => InitializeFullProgress(t))
  /\ [][\A t \in Tasks :
          (task[t].op = "gps_initialize_full" /\ InSection(t)) => RivalClaimFails(t)]_vars

\* between the two writes of one task another task has been turned away
\* from the same port
C15_Witness ==
  \E t \in Tasks : \E u \in Tasks \ {t} :
    /\ At(t, "gps_initialize_full", "call2")
    /\ task[u].pc = "done" /\ task[u].outcome = "AlreadyClaimed"
    /\ Index(u) = Index(t)
    /\ \E v \in Tasks : At(v, "gps_initialize_full", "done") /\ task[v].outcome # "Ok"

\* the call of task t on public port 0 has ended at the range check
PortZeroRejected(t) ==
  /\ task[t].pc = "done"
  /\ task[t].outcome = "OutOfRange"
  /\ task[t].rtv = Sentinel(task[t].op)
  /\ task[t].vcalls = <<>>
  /\ task[t].accesses = <<"range">>

\* C16: an accessor called with public port n works on slot n - 1 and on no
\* other: it holds that slot's claim and hands that slot's handle to the
\* vendor API; with port 0 the index is out of range and the call returns
\* the sentinel without claiming a slot or calling the vendor API.
C16_PortMinusOne ==
  /\ \A t \in Tasks :
       Called(t)
       => /\ task[t].port = 0 => PortZeroRejected(t)
          /\ task[t].outcome = "Ok" => (task[t].port - 1) \in Slots
          /\ InSection(t) => claimed[task[t].port - 1]
          /\ \A k \in 1 .. Len(task[t].vcalls) :
               task[t].vcalls[k].info = registry[task[t].port - 1].device_info
  /\ \A i \in Slots :
       claimed[i] <=> \E t \in Tasks : InSection(t) /\ task[t].port - 1 = i

\* a call on port 0 has been rejected while a call on port 1 holds slot 0
C16_Witness ==
  \E t \in Tasks : \E u \in Tasks \ {t} :
    /\ task[t].port = 0 /\ PortZeroRejected(t)
    /\ task[u].port = 1 /\ InSection(u) /\ Len(task[u].vcalls) = 1
    /\ claimed[0]

\* the slots this step changes the flag, the descriptor or the device of
Touched ==
  {j \in Slots : claimed'[j] # claimed[j] \/ registry'[j] # registry[j]
                 \/ device'[j] # device[j]}

\* the step is task t claiming, using or releasing slot j
ActsOn(t, j) ==
  /\ task[t].pc \in {"entry", "call1", "call2", "ret"}
  /\ task'[t] # task[t]
  /\ task[t].port - 1 = j

\* the step decides a claim of task t on a GPS port nobody holds
ClaimsFreeGps(t) ==
  /\ Entering(t) /\ task'[t].pc # "entry"
  /\ (task[t].port - 1) \in Slots
  /\ registry[task[t].port - 1].device_type = E_DEVICE_GPS
  /\ ~claimed[task[t].port - 1]

\* C17: claims on distinct ports do not interfere: a claim or release of
\* one port changes the flag and descriptor of no other port, and a claim of
\* a free GPS port succeeds whatever is held on the other ports, so that two
\* accessors on two different GPS ports are both inside at once.
C17_PortsIndependent ==
  [][/\ \A j \in Touched : \E t \in Tasks : ActsOn(t, j)
     /\ registry' = registry
     /\ \A t \in Tasks : ClaimsFreeGps(t) => task'[t].outcome = "Ok"]_vars

\* two calls on the two GPS ports are inside at the same time, each with its
\* own claim
C17_Witness ==
  \E t \in Tasks : \E u \in Tasks \ {t} :
    /\ InSection(t) /\ task[t].port = 1 /\ task[t].outcome = "Ok"
    /\ InSection(u) /\ task[u].port = 2 /\ task[u].outcome = "Ok"
    /\ claimed[0] /\ claimed[1]

====
